---- MODULE Spec2Model ----
(***************************************************************************)
(* Model of grzadr/subgonverter: the frame-text (TxtFormat) parser, the    *)
(* duration codec, the lazy subtitle iterator and the subtitle printer of  *)
(* package subtitle (src/subtitle/subtitle.go).                            *)
(*                                                                         *)
(* Strings are sequences of one-character strings.  Indexes are Go's       *)
(* (0-based, Index gives -1 when absent).  A time.Duration is kept in      *)
(* whole milliseconds: every Duration of the program is built as           *)
(* time.Duration(ms) * time.Millisecond, so d.Milliseconds() is d and the  *)
(* units time.Hour .. time.Millisecond are 3600000 .. 1.                   *)
(***************************************************************************)
EXTENDS Integers, Sequences, FiniteSets, TLC

\* ------------------------------------------------------------------ bounds

\* Largest frame number given to the codec round trip.
MaxFrame == 2000

\* Longest text payload of a generated input line.
MaxPayloadLen == 3

\* Longest line of the exhaustive brace/digit lines.
MaxBracketLen == 4

\* Most lines one reader delivers.
MaxLines == 2

\* Most emissions made through one printer.
MaxEmit == 3

\* Most arguments on the command line.
MaxArgs == 3

\* Most lines the reader of a pipeline run holds.
MaxInput == 3

\* --------------------------------------------------------------- constants

ntscRateNum == 24000

ntscRateDen == 1001

ntscRateDiv == 1000

Millisecond == 1

Second == 1000 * Millisecond

Minute == 60 * Second

Hour == 60 * Minute

UnknownFormat == 0

TxtFormat == 1

SrtFormat == 2

FileFormat == {UnknownFormat, TxtFormat, SrtFormat}

NoErr == <<>>

ErrNotImplemented == <<"not implemented">>

\* ------------------------------------------------- Go integers and strings

\* Go's integer division: truncates toward zero (b > 0).
Quot(a, b) == IF a >= 0 THEN a \div b ELSE -((-a) \div b)

\* Go's remainder: has the sign of the dividend (b > 0).
Rem(a, b) == a - b * Quot(a, b)

NL == "\n"

DigitChars == <<"0", "1", "2", "3", "4", "5", "6", "7", "8", "9">>

IsDigit(c) == \E i \in 1..10 : DigitChars[i] = c

DigitVal(c) == (CHOOSE i \in 1..10 : DigitChars[i] = c) - 1

RECURSIVE NatDigits(_)
\* The decimal digits of n >= 0, most significant first.
NatDigits(n) ==
    IF n < 10 THEN <<DigitChars[n + 1]>>
    ELSE Append(NatDigits(n \div 10), DigitChars[(n % 10) + 1])

RECURSIVE ZeroPad(_, _)
ZeroPad(s, w) == IF Len(s) >= w THEN s ELSE ZeroPad(<<"0">> \o s, w)

\* fmt's %0<w>d (w = 0: plain %d): the sign first, then zeros up to width w.
FmtInt(n, w) ==
    IF n < 0 THEN <<"-">> \o ZeroPad(NatDigits(-n), w - 1)
    ELSE ZeroPad(NatDigits(n), w)

RECURSIVE DigitsVal(_)
DigitsVal(s) ==
    IF Len(s) = 0 THEN 0
    ELSE 10 * DigitsVal(SubSeq(s, 1, Len(s) - 1)) + DigitVal(s[Len(s)])

\* The integer the text v spells: an optional sign, then one or more digits.
ParseIntOf(v) ==
    LET signed == Len(v) > 0 /\ v[1] \in {"+", "-"}
        body == IF signed THEN SubSeq(v, 2, Len(v)) ELSE v
    IN  IF Len(body) = 0 \/ \E i \in 1..Len(body) : ~IsDigit(body[i])
        THEN [ok |-> FALSE, val |-> 0]
        ELSE [ok |-> TRUE,
              val |-> IF signed /\ v[1] = "-" THEN -DigitsVal(body)
                      ELSE DigitsVal(body)]

\* strconv.ParseInt(s, 10, 64) (the argument is worked out once, then read).
ParseInt(s) == CHOOSE r \in {ParseIntOf(v) : v \in {s}} : TRUE

\* The 0-based place of the first c in the string v, -1 when there is none.
IndexIn(v, c) ==
    IF \E i \in 1..Len(v) : v[i] = c
    THEN (CHOOSE i \in 1..Len(v) : v[i] = c /\ \A j \in 1..(i - 1) : v[j] # c) - 1
    ELSE -1

\* strings.Index(s, c) for a one-character c: 0-based, -1 when absent (the
\* argument is worked out once, then searched).
Index(s, c) == CHOOSE at \in {IndexIn(v, c) : v \in {s}} : TRUE

\* Whether the slice expression s[lo:hi] is in bounds (Go panics otherwise).
SliceOK(s, lo, hi) == 0 <= lo /\ lo <= hi /\ hi <= Len(s)

\* s[lo:hi] of Go.
Slice(s, lo, hi) == SubSeq(s, lo + 1, hi)

\* strings.ReplaceAll(s, old, new) for one-character old and new.
ReplaceAll(s, old, new) == [i \in 1..Len(s) |-> IF s[i] = old THEN new ELSE s[i]]

\* ---------------------------------------------------------- duration codec

\* Mutant of FrameToDuration: the division rounds down instead of toward zero.
FrameToDurationFloor(frame) ==
    LET div == ntscRateNum
        mul == ntscRateDen * ntscRateDiv
    IN  ((frame * mul) \div div) * Millisecond

\* frame * (ntscRateDen * ntscRateDiv) / ntscRateNum, in milliseconds.
FrameToDuration(frame) ==
    LET div == ntscRateNum
        mul == ntscRateDen * ntscRateDiv
    IN  Quot(frame * mul, div) * Millisecond

\* Mutant of writeTxtDuration: the half divisor is not added (truncation).
writeTxtDurationTruncating(d) ==
    LET div == ntscRateDen * ntscRateDiv
        frame == Quot(Quot(d, Millisecond) * ntscRateNum, div)
    IN  <<"{">> \o FmtInt(frame, 0) \o <<"}">>

\* What writeTxtDuration writes for d.
writeTxtDuration(d) ==
    LET div == ntscRateDen * ntscRateDiv
        frame == Quot(Quot(d, Millisecond) * ntscRateNum + Quot(div, 2), div)
    IN  <<"{">> \o FmtInt(frame, 0) \o <<"}">>

\* What writeSrtDuration writes for d.
\* A clock text whose minutes are not taken within the hour.
writeSrtDurationMinutesOfTotal(d) ==
    LET hours == Quot(d, Hour)
        minutes == Quot(d, Minute)
        seconds == Quot(Rem(d, Minute), Second)
        millis == Quot(Rem(d, Second), Millisecond)
    IN  FmtInt(hours, 2) \o <<":">> \o FmtInt(minutes, 2) \o <<":">>
        \o FmtInt(seconds, 2) \o <<",">> \o FmtInt(millis, 3)

writeSrtDuration(d) ==
    LET hours == Quot(d, Hour)
        minutes == Quot(Rem(d, Hour), Minute)
        seconds == Quot(Rem(d, Minute), Second)
        millis == Quot(Rem(d, Second), Millisecond)
    IN  FmtInt(hours, 2) \o <<":">> \o FmtInt(minutes, 2) \o <<":">>
        \o FmtInt(seconds, 2) \o <<",">> \o FmtInt(millis, 3)

\* ------------------------------------------------------------ record parser

Subtitle(start, end, text) == [Start |-> start, End |-> end, Text |-> text]

\* Subtitle{}: the zero record.
ZeroSubtitle == Subtitle(0, 0, <<>>)

ParsedOk(sub) == [kind |-> "ok", sub |-> sub, err |-> NoErr]

ParsedErr(err) == [kind |-> "err", sub |-> ZeroSubtitle, err |-> err]

\* A slice expression out of bounds: the run-time panic of Go.
ParsedPanic == [kind |-> "panic", sub |-> ZeroSubtitle, err |-> NoErr]

ErrSyntax == "strconv.ParseInt: invalid syntax"

\* fmt.Errorf("failed to parse start frame: %w", err)
StartFrameError == <<"failed to parse start frame", ErrSyntax>>

\* fmt.Errorf("failed to parse end frame: %w", err)
EndFrameError == <<"failed to parse end frame", ErrSyntax>>

\* Mutant of PayloadText: only the first "|" is replaced (strings.Replace
\* with n = 1).
PayloadTextFirstOnly(line, endTill) ==
    LET t == Slice(line, endTill + 1, Len(line))
        k == Index(t, "|") + 1
    IN  [i \in 1..Len(t) |-> IF i = k THEN NL ELSE t[i]]

\* strings.ReplaceAll(line[endTill+1:], "|", "\n")
PayloadText(line, endTill) ==
    ReplaceAll(Slice(line, endTill + 1, Len(line)), "|", NL)

\* newSubtitleFromTxt(line): the record, the error, or the panic of a slice
\* expression out of bounds, each slice in the order the code evaluates it.
newSubtitleFromTxt(line) ==
    LET n == Len(line)
        startFrom == Index(line, "{") + 1
        startTill == Index(line, "}")
    IN  IF ~SliceOK(line, startTill, n) THEN ParsedPanic
        ELSE
        LET endFrom == Index(Slice(line, startTill, n), "{") + startTill + 1
        IN  IF ~SliceOK(line, endFrom - 1, n) THEN ParsedPanic
            ELSE
            LET endTill == Index(Slice(line, endFrom - 1, n), "}") + endFrom - 1
            IN  IF ~SliceOK(line, startFrom, startTill) THEN ParsedPanic
                ELSE
                LET startFrame == ParseInt(Slice(line, startFrom, startTill))
                IN  IF ~startFrame.ok THEN ParsedErr(StartFrameError)
                    ELSE IF ~SliceOK(line, endFrom, endTill) THEN ParsedPanic
                    ELSE
                    LET endFrame == ParseInt(Slice(line, endFrom, endTill))
                    IN  IF ~endFrame.ok THEN ParsedErr(EndFrameError)
                        ELSE IF ~SliceOK(line, endTill + 1, n) THEN ParsedPanic
                        ELSE ParsedOk(Subtitle(FrameToDuration(startFrame.val),
                                               FrameToDuration(endFrame.val),
                                               PayloadText(line, endTill)))

\* ------------------------------------------------------------- input lines

SeqsUpTo(S, k) == UNION {[1..m -> S] : m \in 0..k}

\* Timing fields: integers (signed, several digits) and non-integers.
Fields ==
    {<<"1">>, <<"-", "2">>, <<"+", "3">>, <<"1", "0", "0">>,
     <<>>, <<"a">>, <<"1", "a">>, <<"-">>}

PayloadChars == {"a", "|", "}"}

Payloads == SeqsUpTo(PayloadChars, MaxPayloadLen)

\* What may stand before the first field and between the two fields.
Pre == {<<>>, <<"x">>}

Mid == {<<>>, <<"x">>, <<"}">>}

\* Lines with both bracketed fields present.
GrammarLines ==
    {pre \o <<"{">> \o f1 \o <<"}">> \o mid \o <<"{">> \o f2 \o <<"}">> \o t :
        pre \in Pre, f1 \in Fields, mid \in Mid, f2 \in Fields, t \in Payloads}

\* Every short line over braces and a digit: the malformed bracket structures.
BracketLines == SeqsUpTo({"{", "}", "1"}, MaxBracketLen)

LineSet == GrammarLines \cup BracketLines

\* ------------------------------------------------------------------- state

VARIABLES
    cpc,        \* codec: "input", "decoded", "encoded", or for the clock
                \*        text "duration", "clock"
    frame,      \* codec: the frame number under conversion
    decoded,    \* codec: the Duration decoded from frame
    encoded,    \* codec: the text written for decoded
    format,     \* iterator: the format given to NewSubtitlesIter
    ipc,        \* iterator: "ready", "yielded", "done" or "panicked"
    line,       \* iterator: the line next() delivered last
    item,       \* iterator: the (Subtitle, error) pair yielded last
    scans,      \* iterator: calls of scanner.Scan so far
    pulled,     \* iterator: lines delivered by next() so far
    yields,     \* iterator: items yielded so far
    lineYields, \* iterator: items yielded for the current line
    stopCalls,  \* iterator: calls of stop so far
    printer,    \* printer p: "none" (not made), "srt" (closure) or "nil"
    given,      \* printer p: the format given to NewSubtitlePrinter
    n,          \* printer p: the counter n of its closure
    emits,      \* printer p: emissions that returned nil
    fails,      \* printer p: emissions that returned a write error
    last,       \* the emission made last: printer, record, number, output, error
    ppc,        \* printers: "run" or "panicked" (a nil printer was called)
    input,      \* run: the lines the reader holds
    wide,       \* run: the line that is wider than the scanner's buffer (0: none)
    inputEnd,   \* run: how the reader ends, "eof" or "err" (a read failure)
    inFormat,   \* run: config.InputFormat
    outFormat,  \* run: config.OutputFormat
    rpc,        \* run: "pull", "check", "print", or how process ended:
                \*      "ok", "error", "cancelled", "panicked"
    pos,        \* run: lines pulled from the reader so far
    cur,        \* run: the record sub of the loop turn in hand
    canceled,   \* run: whether ctx is cancelled
    cancelAt,   \* run: where the run stood when ctx was cancelled
    checks,     \* run: calls of ctx.Err() so far
    sink,       \* run: what the writer has accepted
    counter,    \* run: the counter n of the printer's closure
    printed,    \* run: calls of print that returned nil
    result,     \* run: the error process returned
    wclosed,    \* run: "no" until the deferred wcloser() has run, then what it
                \*      returned, "nil" or "err"
    args,       \* main: os.Args[1:]
    apc,        \* main: "start", "parsed" (ParseArguments has returned),
                \*       "fatal" (log.Fatalf) or "process" (process is called)
    config,     \* main: the MainConfig ParseArguments returned
    argErr      \* main: the error ParseArguments returned

codecVars == <<cpc, frame, decoded, encoded>>

iterVars == <<format, ipc, line, item, scans, pulled, yields, lineYields, stopCalls>>

printerVars == <<printer, given, n, emits, fails, last, ppc>>

runVars ==
    <<input, wide, inputEnd, inFormat, outFormat, rpc, pos, cur, canceled, cancelAt,
      checks, sink, counter, printed, result, wclosed>>

argVars == <<args, apc, config, argErr>>

vars == <<codecVars, iterVars, printerVars, runVars, argVars>>

Yielded(sub, err) == [sub |-> sub, err |-> err]

NoItem == Yielded(ZeroSubtitle, NoErr)

Printers == {1, 2}

NoEmission ==
    [p |-> 0, sub |-> ZeroSubtitle, num |-> 0, failStep |-> 0, out |-> <<>>,
     err |-> NoErr]

CodecIdle == cpc = "input" /\ frame = 0 /\ decoded = 0 /\ encoded = <<>>

IterIdle ==
    /\ format = TxtFormat
    /\ ipc = "ready"
    /\ line = <<>>
    /\ item = NoItem
    /\ scans = 0
    /\ pulled = 0
    /\ yields = 0
    /\ lineYields = 0
    /\ stopCalls = 0

PrinterIdle ==
    /\ printer = [p \in Printers |-> "none"]
    /\ given = [p \in Printers |-> UnknownFormat]
    /\ n = [p \in Printers |-> 0]
    /\ emits = [p \in Printers |-> 0]
    /\ fails = [p \in Printers |-> 0]
    /\ last = NoEmission
    /\ ppc = "run"

\* An error of process: its message, and the error errors.Unwrap gives
\* (none when the cause was formatted with %s, or there is none).
Failure(text, cause) == [text |-> text, cause |-> cause]

NoFailure == Failure(<<>>, NoErr)

NotCancelled == [pc |-> "never", pos |-> 0, printed |-> 0]

\* MainConfig{...}
MainConfig(inPath, inFormat_, outPath, outFormat_) ==
    [InputPath |-> inPath, InputFormat |-> inFormat_, OutputPath |-> outPath,
     OutputFormat |-> outFormat_]

\* MainConfig{}: the zero value.
ZeroConfig == MainConfig("", UnknownFormat, "", UnknownFormat)

\* main has not been started.
ArgsIdle ==
    /\ args = <<>>
    /\ apc = "start"
    /\ config = ZeroConfig
    /\ argErr = NoErr

\* process has not been called.
RunIdle ==
    /\ input = <<>>
    /\ wide = 0
    /\ inputEnd = "eof"
    /\ inFormat = TxtFormat
    /\ outFormat = SrtFormat
    /\ rpc = "ok"
    /\ pos = 0
    /\ cur = ZeroSubtitle
    /\ canceled = FALSE
    /\ cancelAt = NotCancelled
    /\ checks = 0
    /\ sink = <<>>
    /\ counter = 0
    /\ printed = 0
    /\ result = NoFailure
    /\ wclosed = "no"

\* ----------------------------------------------------- codec specification

\* The Durations given to writeSrtDuration: around each carry of the clock,
\* and past 99 hours.
ClockSamples ==
    {h * Hour + m * Minute + sec * Second + ms * Millisecond :
        h \in {0, 1, 99, 100, 500}, m \in {0, 9, 59}, sec \in {0, 10, 59},
        ms \in {0, 7, 99, 999}}

InitCodec ==
    /\ \/ cpc = "input" /\ frame \in 0..MaxFrame /\ decoded = 0
       \/ cpc = "duration" /\ frame = 0 /\ decoded \in ClockSamples
    /\ encoded = <<>>
    /\ IterIdle
    /\ PrinterIdle
    /\ RunIdle
    /\ ArgsIdle

\* newSubtitleFromTxt's conversion of a parsed frame number.
Decode ==
    /\ cpc = "input"
    /\ decoded' = FrameToDuration(frame)
    /\ cpc' = "decoded"
    /\ UNCHANGED <<frame, encoded, iterVars, printerVars, runVars, argVars>>

\* writeTxtDuration on the decoded Duration.
Encode ==
    /\ cpc = "decoded"
    /\ encoded' = writeTxtDuration(decoded)
    /\ cpc' = "encoded"
    /\ UNCHANGED <<frame, decoded, iterVars, printerVars, runVars, argVars>>

\* writeSrtDuration on a Duration.
EncodeSrt ==
    /\ cpc = "duration"
    /\ encoded' = writeSrtDuration(decoded)
    /\ cpc' = "clock"
    /\ UNCHANGED <<frame, decoded, iterVars, printerVars, runVars, argVars>>

NextCodec == Decode \/ Encode \/ EncodeSrt

SpecCodec == InitCodec /\ [][NextCodec]_vars

\* C1: frame round trip. For every frame number f in 0..MaxFrame, the text
\* writeTxtDuration writes for the Duration decoded from f is "{f}":
\* encode(decode(f)) = f.
C1_FrameRoundTrip ==
    cpc = "encoded" => encoded = <<"{">> \o NatDigits(frame) \o <<"}">>

\* A frame whose decoded Duration is not a whole number of frames' worth of
\* milliseconds (f * 1001000 is not a multiple of 24000) has been encoded.
C1_Witness ==
    /\ cpc = "encoded"
    /\ frame > 100
    /\ (frame * ntscRateDen * ntscRateDiv) % ntscRateNum # 0

\* -------------------------------------------------- iterator specification

\* scanner.Buffer(buf, readBufferSize): the buffer bufio.Scanner works in.
readBufferSize == 262144

\* Whether scanner.Scan hands over a line of len bytes: the buffer must hold
\* the line and its newline or, before the end of the input, stay short of
\* full; else Scan fails with bufio.ErrTooLong.
TokenFits(len) == len < readBufferSize

\* fmt.Errorf("error reading txt subtitle: %w", bufio.ErrTooLong)
TooLongError == <<"error reading txt subtitle", "bufio.Scanner: token too long">>

\* fmt.Errorf("error reading txt subtitle: %w", err)
ReadError == <<"error reading txt subtitle", "read error">>

\* Mutant of ParseError: the cause is dropped from the error.
ParseErrorUnwrapped(err) == <<"error parsing txt subtitle">>

\* fmt.Errorf("error parsing txt subtitle: %w", err)
ParseError(err) == <<"error parsing txt subtitle">> \o err

InitIter ==
    /\ format \in FileFormat
    /\ ipc = "ready"
    /\ line = <<>>
    /\ item = NoItem
    /\ scans = 0
    /\ pulled = 0
    /\ yields = 0
    /\ lineYields = 0
    /\ stopCalls = 0
    /\ CodecIdle
    /\ PrinterIdle
    /\ RunIdle
    /\ ArgsIdle

\* Mutant of IterUnsupported: a line is scanned before the error is yielded.
IterUnsupportedAfterScan ==
    /\ format # TxtFormat
    /\ ipc = "ready"
    /\ item' = Yielded(ZeroSubtitle, ErrNotImplemented)
    /\ yields' = yields + 1
    /\ scans' = scans + 1
    /\ ipc' = "yielded"
    /\ UNCHANGED <<format, line, pulled, lineYields, stopCalls>>
    /\ UNCHANGED <<codecVars, printerVars, runVars, argVars>>

\* NewSubtitlesIter, default case: yield(Subtitle{}, ErrNotImplemented).
IterUnsupported ==
    /\ format # TxtFormat
    /\ ipc = "ready"
    /\ item' = Yielded(ZeroSubtitle, ErrNotImplemented)
    /\ yields' = yields + 1
    /\ ipc' = "yielded"
    /\ UNCHANGED <<format, line, scans, pulled, lineYields, stopCalls>>
    /\ UNCHANGED <<codecVars, printerVars, runVars, argVars>>

\* newTxtSubtitlesIter, one turn of the loop when scanner.Scan delivers the
\* line l: next(), newSubtitleFromTxt(l), then the yield of the record or of
\* the wrapped parse error; a panic unwinds through the deferred stop().
IterLine(l) ==
    /\ scans' = scans + 1
    /\ pulled' = pulled + 1
    /\ line' = l
    /\ LET parsed == newSubtitleFromTxt(l)
       IN  CASE parsed.kind = "panic" ->
                  /\ ipc' = "panicked"
                  /\ stopCalls' = stopCalls + 1
                  /\ lineYields' = 0
                  /\ UNCHANGED <<item, yields>>
             [] parsed.kind = "err" ->
                  /\ item' = Yielded(ZeroSubtitle, ParseError(parsed.err))
                  /\ yields' = yields + 1
                  /\ lineYields' = 1
                  /\ ipc' = "yielded"
                  /\ UNCHANGED stopCalls
             [] parsed.kind = "ok" ->
                  /\ item' = Yielded(parsed.sub, NoErr)
                  /\ yields' = yields + 1
                  /\ lineYields' = 1
                  /\ ipc' = "yielded"
                  /\ UNCHANGED stopCalls
    /\ UNCHANGED <<format, codecVars, printerVars, runVars, argVars>>

\* A turn of the loop on any line the reader may hold.
IterPull ==
    /\ format = TxtFormat
    /\ ipc = "ready"
    /\ pulled < MaxLines
    /\ \E l \in LineSet : IterLine(l)

\* newTxtSubtitlesIter when scanner.Scan ends the input cleanly: next()
\* gives ok = false, the iterator returns and the deferred stop() runs.
IterEnd ==
    /\ format = TxtFormat
    /\ ipc = "ready"
    /\ scans' = scans + 1
    /\ ipc' = "done"
    /\ stopCalls' = stopCalls + 1
    /\ UNCHANGED <<format, line, item, pulled, yields, lineYields>>
    /\ UNCHANGED <<codecVars, printerVars, runVars, argVars>>

\* newTxtSubtitlesIter when scanner.Scan fails: next() gives the read
\* error, which is yielded wrapped.
IterReadError ==
    /\ format = TxtFormat
    /\ ipc = "ready"
    /\ scans' = scans + 1
    /\ item' = Yielded(ZeroSubtitle, ReadError)
    /\ yields' = yields + 1
    /\ ipc' = "yielded"
    /\ UNCHANGED <<format, line, pulled, lineYields, stopCalls>>
    /\ UNCHANGED <<codecVars, printerVars, runVars, argVars>>

\* An iterator that goes on with the next line after it yielded an error.
ConsumerContinueAfterError ==
    /\ ipc = "yielded"
    /\ IF format # TxtFormat
       THEN /\ ipc' = "done"
            /\ stopCalls' = stopCalls + 1
       ELSE /\ ipc' = "ready"
            /\ UNCHANGED stopCalls
    /\ UNCHANGED <<format, line, item, lineYields, scans, pulled, yields>>
    /\ UNCHANGED <<codecVars, printerVars, runVars, argVars>>

\* The loop body returns true to yield: after an error item, and in the
\* default case of NewSubtitlesIter, the iterator returns (stop() runs);
\* after a record the loop of newTxtSubtitlesIter goes on, its line, sub
\* and err being fresh variables of the next turn.
ConsumerContinue ==
    /\ ipc = "yielded"
    /\ IF item.err # NoErr \/ format # TxtFormat
       THEN /\ ipc' = "done"
            /\ stopCalls' = stopCalls + 1
            /\ UNCHANGED <<line, item, lineYields>>
       ELSE /\ ipc' = "ready"
            /\ line' = <<>>
            /\ item' = NoItem
            /\ lineYields' = 0
            /\ UNCHANGED stopCalls
    /\ UNCHANGED <<format, scans, pulled, yields>>
    /\ UNCHANGED <<codecVars, printerVars, runVars, argVars>>

\* An iterator that returns without stop() when the loop body breaks.
ConsumerBreakLeaks ==
    /\ ipc = "yielded"
    /\ ipc' = "done"
    /\ UNCHANGED <<format, line, item, scans, pulled, yields, lineYields, stopCalls>>
    /\ UNCHANGED <<codecVars, printerVars, runVars, argVars>>

\* A line source that scans one more line when the consumer breaks.
ConsumerBreakDrains ==
    /\ ipc = "yielded"
    /\ ipc' = "done"
    /\ stopCalls' = stopCalls + 1
    /\ scans' = scans + 1
    /\ UNCHANGED <<format, line, item, pulled, yields, lineYields>>
    /\ UNCHANGED <<codecVars, printerVars, runVars, argVars>>

\* The loop body breaks: yield returns false, the iterator returns.
ConsumerBreak ==
    /\ ipc = "yielded"
    /\ ipc' = "done"
    /\ stopCalls' = stopCalls + 1
    /\ UNCHANGED <<format, line, item, scans, pulled, yields, lineYields>>
    /\ UNCHANGED <<codecVars, printerVars, runVars, argVars>>

NextIter ==
    \/ IterUnsupported
    \/ IterPull
    \/ IterEnd
    \/ IterReadError
    \/ ConsumerContinue
    \/ ConsumerBreak

SpecIter == InitIter /\ [][NextIter]_vars

\* ------------------------------------------------ the frame-text grammar,
\* stated on the line itself (1-based positions, 0 when absent)

FirstAt(l, c, from) ==
    IF \E i \in from..Len(l) : l[i] = c
    THEN CHOOSE i \in from..Len(l) : l[i] = c /\ \A j \in from..(i - 1) : l[j] # c
    ELSE 0

OpenA(l) == FirstAt(l, "{", 1)

CloseA(l) == FirstAt(l, "}", 1)

OpenB(l) == IF CloseA(l) = 0 THEN 0 ELSE FirstAt(l, "{", CloseA(l) + 1)

CloseB(l) == IF OpenB(l) = 0 THEN 0 ELSE FirstAt(l, "}", OpenB(l) + 1)

\* The first {...} pair and the following {...} pair are both present.
HasTwoPairs(l) ==
    OpenA(l) > 0 /\ CloseA(l) > OpenA(l) /\ OpenB(l) > 0 /\ CloseB(l) > 0

FieldA(l) == SubSeq(l, OpenA(l) + 1, CloseA(l) - 1)

FieldB(l) == SubSeq(l, OpenB(l) + 1, CloseB(l) - 1)

\* Everything after the closing brace of the second (end-frame) field.
PayloadOf(l) == SubSeq(l, CloseB(l) + 1, Len(l))

\* A base-10 signed integer: an optional sign and at least one digit.
IsIntegerText(s) ==
    \E k \in 0..1 :
        /\ Len(s) > k
        /\ k = 1 => s[1] \in {"+", "-"}
        /\ \A i \in (k + 1)..Len(s) :
              s[i] \in {"0", "1", "2", "3", "4", "5", "6", "7", "8", "9"}

\* The integer fields of the input lines and the numbers they denote.
IntegerFields ==
    {<<<<"1">>, 1>>, <<<<"-", "2">>, -2>>, <<<<"+", "3">>, 3>>,
     <<<<"1", "0", "0">>, 100>>}

\* a * 1001 * 1000 div 24000, the quotient truncated toward zero.
TruncatedMs(a) ==
    LET x == a * 1001 * 1000
    IN  IF x >= 0 THEN x \div 24000 ELSE 0 - ((0 - x) \div 24000)

Contains(err, msg) == \E i \in 1..Len(err) : err[i] = msg

CountOf(s, c) == Cardinality({i \in 1..Len(s) : s[i] = c})

RECURSIVE SplitOn(_, _)
\* strings.Split(s, c): the pieces of s between the occurrences of c.
SplitOn(s, c) ==
    LET k == FirstAt(s, c, 1)
    IN  IF k = 0 THEN <<s>>
        ELSE <<SubSeq(s, 1, k - 1)>> \o SplitOn(SubSeq(s, k + 1, Len(s)), c)

\* The display lines of a record's text: none for the empty text.
DisplayLines(text) == IF text = <<>> THEN <<>> ELSE SplitOn(text, NL)

\* The turn of the loop in hand has pulled a line (line is that line).
LineInHand == format = TxtFormat /\ (ipc = "panicked" \/ lineYields = 1)

\* C2: for a line {a}{b}T with integers a and b, the record yielded has
\* Start = a*1001*1000 div 24000 ms and End = b*1001*1000 div 24000 ms, the
\* quotients truncated toward zero, and no error.
C2_DecodedTimes ==
    \A fa \in IntegerFields, fb \in IntegerFields :
        (/\ LineInHand
         /\ Len(line) >= Len(fa[1]) + Len(fb[1]) + 4
         /\ SubSeq(line, 1, Len(fa[1]) + Len(fb[1]) + 4)
                = <<"{">> \o fa[1] \o <<"}", "{">> \o fb[1] \o <<"}">>)
        => /\ ipc \in {"yielded", "done"}
           /\ item.err = NoErr
           /\ item.sub.Start = TruncatedMs(fa[2])
           /\ item.sub.End = TruncatedMs(fb[2])

\* The line {-2}{100}a has been parsed: Start is -83 ms (not -84), End 4170 ms.
C2_Witness ==
    /\ ipc = "yielded"
    /\ line = <<"{", "-", "2", "}", "{", "1", "0", "0", "}", "a">>
    /\ item.sub.Start = -83
    /\ item.sub.End = 4170

\* C3: a line whose first {...} pair or following {...} pair is absent makes
\* the parse fail with a "missing timing field" error; the parser never
\* panics on an out-of-bounds index.
C3_MissingTimingField ==
    (LineInHand /\ ~HasTwoPairs(line))
    => /\ ipc # "panicked"
       /\ Contains(item.err, "missing timing field")

\* C4: on a line with both pairs present, a first field that is no integer
\* gives an error containing "failed to parse start frame"; otherwise a second
\* field that is no integer gives one containing "failed to parse end frame".
\* The error is the one item yielded for the line, it carries no record, and
\* nothing is yielded after it.
C4_FieldErrorState ==
    (LineInHand /\ HasTwoPairs(line))
    => /\ ~IsIntegerText(FieldA(line))
          => /\ ipc \in {"yielded", "done"}
             /\ Contains(item.err, "failed to parse start frame")
             /\ item.sub = ZeroSubtitle
             /\ lineYields = 1
       /\ (IsIntegerText(FieldA(line)) /\ ~IsIntegerText(FieldB(line)))
          => /\ ipc \in {"yielded", "done"}
             /\ Contains(item.err, "failed to parse end frame")
             /\ item.sub = ZeroSubtitle
             /\ lineYields = 1

C4_FieldError ==
    /\ []C4_FieldErrorState
    /\ [][item.err # NoErr => (yields' = yields /\ item' = item)]_vars

\* The line {1}{a} has been read and its end-frame error yielded.
C4_Witness ==
    /\ ipc = "yielded"
    /\ HasTwoPairs(line)
    /\ FieldA(line) = <<"1">>
    /\ FieldB(line) = <<"a">>
    /\ Contains(item.err, "failed to parse end frame")

\* C5: the text of a yielded record is the payload (everything after the
\* closing brace of the second timing field) with each "|" turned into a line
\* break and every other character kept: k occurrences of "|" give k + 1
\* display lines, empty ones included; an empty payload gives the empty text.
C5_PayloadText ==
    (LineInHand /\ ipc # "panicked" /\ item.err = NoErr)
    => LET payload == PayloadOf(line)
           text == item.sub.Text
       IN  /\ HasTwoPairs(line)
           /\ Len(text) = Len(payload)
           /\ \A i \in 1..Len(payload) :
                 text[i] = IF payload[i] = "|" THEN NL ELSE payload[i]
           /\ payload = <<>> => text = <<>>
           /\ payload # <<>>
                 => Len(DisplayLines(text)) = CountOf(payload, "|") + 1

\* The payload "|||" has been parsed into four empty display lines.
C5_Witness ==
    /\ ipc = "yielded"
    /\ item.err = NoErr
    /\ PayloadOf(line) = <<"|", "|", "|">>
    /\ DisplayLines(item.sub.Text) = <<<<>>, <<>>, <<>>, <<>>>>

\* C6: with a format other than TxtFormat the iterator yields exactly one
\* item, the error ErrNotImplemented with the zero record, then ends, and
\* never scans a line of the input.
C6_UnsupportedInput ==
    format # TxtFormat
    => /\ scans = 0
       /\ pulled = 0
       /\ yields <= 1
       /\ ipc # "panicked"
       /\ ipc = "ready" => yields = 0
       /\ ipc \in {"yielded", "done"}
             => /\ yields = 1
                /\ item = Yielded(ZeroSubtitle, <<"not implemented">>)

\* An SrtFormat iteration has yielded its one item and ended.
C6_Witness == format = SrtFormat /\ ipc = "done" /\ yields = 1 /\ stopCalls = 1

\* --------------------------------------------------- printer specification

RECURSIVE Concat(_)
Concat(ss) == IF Len(ss) = 0 THEN <<>> ELSE ss[1] \o Concat(Tail(ss))

\* The Write calls of writeSrtSubtitle(w, sub, n), in order: Fprintln(w, n),
\* writeSrtDuration(w, sub.Start), Fprint(w, " --> "),
\* writeSrtDuration(w, sub.Start), Fprintln(w, "\n", sub.Text).  Fprintln
\* puts a space between its operands and a newline after them.
writeSrtSubtitle(sub, num) ==
    << FmtInt(num, 0) \o <<NL>>,
       writeSrtDuration(sub.Start),
       <<" ", "-", "-", ">", " ">>,
       writeSrtDuration(sub.Start),
       <<NL>> \o <<" ">> \o sub.Text \o <<NL>> >>

\* writeSrtSubtitle on a writer whose failStep-th Write fails (0: none
\* fails): what reached the writer, and the error returned.
EmitSrt(sub, num, failStep) ==
    LET writes == writeSrtSubtitle(sub, num)
    IN  IF failStep = 0
        THEN [out |-> Concat(writes), err |-> NoErr]
        ELSE [out |-> Concat(SubSeq(writes, 1, failStep - 1)),
              err |-> <<"write error">>]

\* Mutant of IncrCounter: one counter shared by every printer.
IncrCounterShared(cnt, p) == [q \in DOMAIN cnt |-> cnt[q] + 1]

\* n++ in the closure of printer p.
IncrCounter(cnt, p) == [cnt EXCEPT ![p] = @ + 1]

\* The records given to the printers: End after, equal to and before Start,
\* an hour and more, and empty, one-line and two-line texts.
SubSet ==
    {Subtitle(0, 5 * Second + 120 * Millisecond, <<"a">>),
     Subtitle(5 * Second + 120 * Millisecond, 5 * Second + 120 * Millisecond, <<>>),
     Subtitle(Hour + 2 * Minute + 3 * Second + 4 * Millisecond,
              5 * Second + 120 * Millisecond, <<"a", NL, "b">>)}

\* The Write calls one SRT emission makes.
SrtWrites == Len(writeSrtSubtitle(ZeroSubtitle, 0))

InitPrinter ==
    /\ PrinterIdle
    /\ CodecIdle
    /\ IterIdle
    /\ RunIdle
    /\ ArgsIdle

\* NewSubtitlePrinter(writer, f): a closure with n = 0 for SrtFormat, nil for
\* TxtFormat and for every other format.
NewPrinter(p, f) ==
    /\ ppc = "run"
    /\ printer[p] = "none"
    /\ printer' = [printer EXCEPT ![p] = IF f = SrtFormat THEN "srt" ELSE "nil"]
    /\ given' = [given EXCEPT ![p] = f]
    /\ n' = [n EXCEPT ![p] = 0]
    /\ UNCHANGED <<emits, fails, last, ppc, codecVars, iterVars, runVars, argVars>>

\* A call of the SRT closure: n++, then writeSrtSubtitle(writer, sub, n).
Emit(p, sub, failStep) ==
    /\ ppc = "run"
    /\ printer[p] = "srt"
    /\ emits[p] + fails[p] < MaxEmit
    /\ n' = IncrCounter(n, p)
    /\ LET r == EmitSrt(sub, n'[p], failStep)
       IN  /\ last' = [p |-> p, sub |-> sub, num |-> n'[p],
                       failStep |-> failStep, out |-> r.out, err |-> r.err]
           /\ IF r.err = NoErr
              THEN emits' = [emits EXCEPT ![p] = @ + 1] /\ UNCHANGED fails
              ELSE fails' = [fails EXCEPT ![p] = @ + 1] /\ UNCHANGED emits
    /\ UNCHANGED <<printer, given, ppc, codecVars, iterVars, runVars, argVars>>

\* A call of the nil printer: a nil function call panics.
EmitNil(p) ==
    /\ ppc = "run"
    /\ printer[p] = "nil"
    /\ ppc' = "panicked"
    /\ UNCHANGED <<printer, given, n, emits, fails, last, codecVars, iterVars, runVars, argVars>>

NextPrinter ==
    \/ \E p \in Printers, f \in FileFormat : NewPrinter(p, f)
    \/ \E p \in Printers, sub \in SubSet, failStep \in 0..SrtWrites :
          Emit(p, sub, failStep)
    \/ \E p \in Printers : EmitNil(p)

SpecPrinter == InitPrinter /\ [][NextPrinter]_vars

\* The lines of an output: the pieces its line breaks terminate.
LinesOf(out) == SplitOn(out, NL)

Arrow == <<" ", "-", "-", ">", " ">>

\* The emission made last returned nil.
Emitted == last.p # 0 /\ last.err = NoErr

\* C7: the timing line of an emitted SRT block is the encoded Start, " --> ",
\* then the encoded End of the record.
C7_TimingLineEnd ==
    Emitted
    => LinesOf(last.out)[2]
         = writeSrtDuration(last.sub.Start) \o Arrow \o writeSrtDuration(last.sub.End)

\* C8: an emitted SRT block is the sequence number, a newline, the timing
\* line, a newline, the record's text with nothing added before or after it,
\* a newline, and one empty line: "<n>\n<start> --> <end>\n<text>\n\n".  (The
\* layout is stated for either timestamp in the end position.)
C8_BlockLayout ==
    Emitted
    => \E ts \in {writeSrtDuration(last.sub.Start), writeSrtDuration(last.sub.End)} :
          last.out = NatDigits(last.num) \o <<NL>>
                     \o writeSrtDuration(last.sub.Start) \o Arrow \o ts \o <<NL>>
                     \o last.sub.Text \o <<NL>> \o <<NL>>

\* C9: while every emission of a printer has succeeded, the block of its
\* k-th emission begins with the line "k"; the numbers go up by one per
\* emission, are never reset, and are not shared between two printers.
C9_SequenceNumbers ==
    (Emitted /\ fails[last.p] = 0)
    => /\ LinesOf(last.out)[1] = NatDigits(emits[last.p])
       /\ last.num = emits[last.p]

\* Printer 2 has made its second emission after printer 1 made three.
C9_Witness ==
    /\ Emitted
    /\ last.p = 2
    /\ emits[2] = 2
    /\ emits[1] = 3
    /\ fails[1] = 0
    /\ fails[2] = 0
    /\ LinesOf(last.out)[1] = <<"2">>

\* C10: the counter advances only on success: after an emission that returned
\* a write error the counter is unchanged, so every successful emission
\* carries the count of the printer's successful emissions.
C10_CounterOnlyOnSuccess ==
    /\ \A p \in Printers : n[p] = emits[p]
    /\ Emitted => LinesOf(last.out)[1] = NatDigits(emits[last.p])

\* C11: NewSubtitlePrinter with TxtFormat gives a usable (non-nil) printer,
\* which writes for every record "{<start frame>}{<end frame>}", the display
\* lines joined with "|", and one newline.
C11_TxtPrinter ==
    \A p \in Printers :
        (printer[p] # "none" /\ given[p] = TxtFormat)
        => /\ printer[p] # "nil"
           /\ (last.p = p /\ last.err = NoErr)
                 => last.out = writeTxtDuration(last.sub.Start)
                               \o writeTxtDuration(last.sub.End)
                               \o ReplaceAll(last.sub.Text, NL, "|") \o <<NL>>

\* C13: for SrtFormat and TxtFormat, a Write that fails at any step of an
\* emission makes the printer return that error with nothing written after
\* the failing step; a printer of a supported format is never one whose call
\* panics.
C13_WriteErrorSurfaced ==
    /\ (last.p # 0 /\ last.failStep > 0)
          => /\ last.err = <<"write error">>
             /\ \E k \in 0..(SrtWrites - 1) :
                   /\ k = last.failStep - 1
                   /\ last.out = Concat(SubSeq(writeSrtSubtitle(last.sub, last.num), 1, k))
    /\ ppc = "panicked"
          => \E p \in Printers : printer[p] = "nil" /\ given[p] = UnknownFormat

\* -------------------------------------------------- pipeline specification
\* process(ctx, config) of main.go on a reader holding `input`: the range
\* over NewSubtitlesIter, the check of ctx.Err(), the call of print.  ctx can
\* be cancelled (os.Interrupt) between any two steps.

\* The lines a run's reader holds: two well-formed lines, one whose start
\* field is no integer, one without its closing brace.
PipeLines ==
    {<<"{", "1", "}", "{", "3", "}", "a">>,
     <<"{", "3", "}", "{", "1", "}", "b", "|">>,
     <<"{", "a", "}", "{", "1", "}">>,
     <<"{", "1">>}

\* The bytes of line i of the reader: those of its text, and for the wide
\* line readBufferSize more of payload that the model does not spell out.
LineLen(i) == Len(input[i]) + (IF i = wide THEN readBufferSize ELSE 0)

\* fmt.Errorf("failed to parse subtitle: %s", err): the cause is formatted
\* into the message, not wrapped.
ParseFailure(err) == Failure(<<"failed to parse subtitle">> \o err, NoErr)

\* fmt.Errorf("failed to write subtitle: %w", err)
WriteFailure(err) == Failure(<<"failed to write subtitle">> \o err, err)

\* A cancellation that is reported as success.
CanceledAsNil == NoFailure

\* ctx.Err() of a cancelled context, returned as it is.
Canceled == Failure(<<"context canceled">>, NoErr)

Init ==
    /\ input \in SeqsUpTo(PipeLines, MaxInput)
    /\ wide \in 0..Len(input)
    /\ inputEnd \in {"eof", "err"}
    /\ inFormat \in FileFormat
    /\ outFormat \in FileFormat
    /\ rpc = "pull"
    /\ pos = 0
    /\ cur = ZeroSubtitle
    /\ canceled = FALSE
    /\ cancelAt = NotCancelled
    /\ checks = 0
    /\ sink = <<>>
    /\ counter = 0
    /\ printed = 0
    /\ result = NoFailure
    /\ wclosed = "no"
    /\ CodecIdle
    /\ IterIdle
    /\ PrinterIdle
    /\ ArgsIdle

\* The ways process is left: by a return or by a panic.
Exited == {"ok", "error", "cancelled", "panicked"}

\* defer wcloser(): when process returns or unwinds, bw.Flush (and for a
\* file, file.Close) runs and gives nil or an error; the deferred call's
\* result goes nowhere.
WCloser ==
    /\ wclosed' \in (IF rpc' \in Exited THEN {"nil", "err"} ELSE {"no"})

\* The first turn of the range when the input format is not TxtFormat: the
\* iterator yields ErrNotImplemented, process returns it as a parse failure.
PullUnsupported ==
    /\ rpc = "pull"
    /\ inFormat # TxtFormat
    /\ result' = ParseFailure(ErrNotImplemented)
    /\ rpc' = "error"
    /\ UNCHANGED <<input, wide, inputEnd, inFormat, outFormat, pos, cur, canceled,
                   cancelAt, checks, sink, counter, printed>>
    /\ WCloser
    /\ UNCHANGED <<codecVars, iterVars, printerVars, argVars>>

\* A turn of the range that skips a line it cannot parse and goes on.
PullLineSkipMalformed ==
    /\ rpc = "pull"
    /\ inFormat = TxtFormat
    /\ pos < Len(input)
    /\ TokenFits(LineLen(pos + 1))
    /\ pos' = pos + 1
    /\ LET parsed == newSubtitleFromTxt(input[pos + 1])
       IN  CASE parsed.kind = "panic" ->
                  rpc' = "panicked" /\ UNCHANGED <<cur, result>>
             [] parsed.kind = "err" ->
                  UNCHANGED <<rpc, cur, result>>
             [] parsed.kind = "ok" ->
                  /\ cur' = parsed.sub
                  /\ rpc' = "check"
                  /\ UNCHANGED result
    /\ UNCHANGED <<input, wide, inputEnd, inFormat, outFormat, canceled, cancelAt,
                   checks, sink, counter, printed>>
    /\ WCloser
    /\ UNCHANGED <<codecVars, iterVars, printerVars, argVars>>

\* A loop that looks at ctx before it looks at the error of the item.
PullLineCancelFirst ==
    /\ rpc = "pull"
    /\ inFormat = TxtFormat
    /\ pos < Len(input)
    /\ TokenFits(LineLen(pos + 1))
    /\ pos' = pos + 1
    /\ LET parsed == newSubtitleFromTxt(input[pos + 1])
       IN  CASE parsed.kind = "panic" ->
                  rpc' = "panicked" /\ UNCHANGED <<cur, result>>
             [] parsed.kind = "err" ->
                  /\ result' = (IF canceled THEN Canceled
                                ELSE ParseFailure(ParseError(parsed.err)))
                  /\ rpc' = (IF canceled THEN "cancelled" ELSE "error")
                  /\ UNCHANGED cur
             [] parsed.kind = "ok" ->
                  /\ cur' = parsed.sub
                  /\ rpc' = "check"
                  /\ UNCHANGED result
    /\ UNCHANGED <<input, wide, inputEnd, inFormat, outFormat, canceled, cancelAt,
                   checks, sink, counter, printed>>
    /\ WCloser
    /\ UNCHANGED <<codecVars, iterVars, printerVars, argVars>>

\* A turn of the range on the next line: newSubtitleFromTxt panics, or its
\* error comes back as a parse failure, or its record is the turn's sub.
PullLine ==
    /\ rpc = "pull"
    /\ inFormat = TxtFormat
    /\ pos < Len(input)
    /\ TokenFits(LineLen(pos + 1))
    /\ pos' = pos + 1
    /\ LET parsed == newSubtitleFromTxt(input[pos + 1])
       IN  CASE parsed.kind = "panic" ->
                  rpc' = "panicked" /\ UNCHANGED <<cur, result>>
             [] parsed.kind = "err" ->
                  /\ result' = ParseFailure(ParseError(parsed.err))
                  /\ rpc' = "error"
                  /\ UNCHANGED cur
             [] parsed.kind = "ok" ->
                  /\ cur' = parsed.sub
                  /\ rpc' = "check"
                  /\ UNCHANGED result
    /\ UNCHANGED <<input, wide, inputEnd, inFormat, outFormat, canceled, cancelAt,
                   checks, sink, counter, printed>>
    /\ WCloser
    /\ UNCHANGED <<codecVars, iterVars, printerVars, argVars>>

\* A scanner that cuts a line wider than its buffer down to what the model
\* spells out, and hands that over.
PullTooLongTruncates ==
    /\ rpc = "pull"
    /\ inFormat = TxtFormat
    /\ pos < Len(input)
    /\ ~TokenFits(LineLen(pos + 1))
    /\ pos' = pos + 1
    /\ LET parsed == newSubtitleFromTxt(input[pos + 1])
       IN  CASE parsed.kind = "panic" ->
                  rpc' = "panicked" /\ UNCHANGED <<cur, result>>
             [] parsed.kind = "err" ->
                  /\ result' = ParseFailure(ParseError(parsed.err))
                  /\ rpc' = "error"
                  /\ UNCHANGED cur
             [] parsed.kind = "ok" ->
                  /\ cur' = parsed.sub
                  /\ rpc' = "check"
                  /\ UNCHANGED result
    /\ UNCHANGED <<input, wide, inputEnd, inFormat, outFormat, canceled, cancelAt,
                   checks, sink, counter, printed>>
    /\ WCloser
    /\ UNCHANGED <<codecVars, iterVars, printerVars, argVars>>

\* A turn of the range on a line wider than the scanner's buffer: Scan fails
\* with bufio.ErrTooLong, the iterator yields the read error, process returns
\* it as a parse failure.
PullTooLong ==
    /\ rpc = "pull"
    /\ inFormat = TxtFormat
    /\ pos < Len(input)
    /\ ~TokenFits(LineLen(pos + 1))
    /\ result' = ParseFailure(TooLongError)
    /\ rpc' = "error"
    /\ UNCHANGED <<input, wide, inputEnd, inFormat, outFormat, pos, cur, canceled,
                   cancelAt, checks, sink, counter, printed>>
    /\ WCloser
    /\ UNCHANGED <<codecVars, iterVars, printerVars, argVars>>

\* A loop that looks at ctx once more when the reader has ended.
PullEndChecksCancel ==
    /\ rpc = "pull"
    /\ inFormat = TxtFormat
    /\ pos = Len(input)
    /\ inputEnd = "eof"
    /\ rpc' = (IF canceled THEN "cancelled" ELSE "ok")
    /\ result' = (IF canceled THEN Canceled ELSE result)
    /\ UNCHANGED <<input, wide, inputEnd, inFormat, outFormat, pos, cur, canceled,
                   cancelAt, checks, sink, counter, printed>>
    /\ WCloser
    /\ UNCHANGED <<codecVars, iterVars, printerVars, argVars>>

\* An end of input that is reported as a read failure.
PullEndAsFailure ==
    /\ rpc = "pull"
    /\ inFormat = TxtFormat
    /\ pos = Len(input)
    /\ inputEnd = "eof"
    /\ result' = ParseFailure(ReadError)
    /\ rpc' = "error"
    /\ UNCHANGED <<input, wide, inputEnd, inFormat, outFormat, pos, cur, canceled,
                   cancelAt, checks, sink, counter, printed>>
    /\ WCloser
    /\ UNCHANGED <<codecVars, iterVars, printerVars, argVars>>

\* The reader ends cleanly: the range ends and process returns nil.
PullEnd ==
    /\ rpc = "pull"
    /\ inFormat = TxtFormat
    /\ pos = Len(input)
    /\ inputEnd = "eof"
    /\ rpc' = "ok"
    /\ UNCHANGED <<input, wide, inputEnd, inFormat, outFormat, pos, cur, canceled,
                   cancelAt, checks, sink, counter, printed, result>>
    /\ WCloser
    /\ UNCHANGED <<codecVars, iterVars, printerVars, argVars>>

\* The reader fails: the iterator yields the read error, process returns it
\* as a parse failure.
PullReadError ==
    /\ rpc = "pull"
    /\ inFormat = TxtFormat
    /\ pos = Len(input)
    /\ inputEnd = "err"
    /\ result' = ParseFailure(ReadError)
    /\ rpc' = "error"
    /\ UNCHANGED <<input, wide, inputEnd, inFormat, outFormat, pos, cur, canceled,
                   cancelAt, checks, sink, counter, printed>>
    /\ WCloser
    /\ UNCHANGED <<codecVars, iterVars, printerVars, argVars>>

\* A loop that looks at ctx for every second record only.
CheckCancelEverySecond ==
    /\ rpc = "check"
    /\ checks' = checks + 1
    /\ IF canceled /\ checks % 2 = 1
       THEN rpc' = "cancelled" /\ result' = Canceled
       ELSE rpc' = "print" /\ UNCHANGED result
    /\ UNCHANGED <<input, wide, inputEnd, inFormat, outFormat, pos, cur, canceled,
                   cancelAt, sink, counter, printed>>
    /\ WCloser
    /\ UNCHANGED <<codecVars, iterVars, printerVars, argVars>>

\* A loop that never looks at ctx.
CheckCancelSkipped ==
    /\ rpc = "check"
    /\ checks' = checks + 1
    /\ rpc' = "print"
    /\ UNCHANGED <<input, wide, inputEnd, inFormat, outFormat, pos, cur, canceled,
                   cancelAt, sink, counter, printed, result>>
    /\ WCloser
    /\ UNCHANGED <<codecVars, iterVars, printerVars, argVars>>

\* if err := ctx.Err(); err != nil { return err }
CheckCancel ==
    /\ rpc = "check"
    /\ checks' = checks + 1
    /\ IF canceled
       THEN rpc' = "cancelled" /\ result' = Canceled
       ELSE rpc' = "print" /\ UNCHANGED result
    /\ UNCHANGED <<input, wide, inputEnd, inFormat, outFormat, pos, cur, canceled,
                   cancelAt, sink, counter, printed>>
    /\ WCloser
    /\ UNCHANGED <<codecVars, iterVars, printerVars, argVars>>

\* A printer that puts each block in front of what the sink holds.
CallPrintSrtPrepend(failStep) ==
    /\ counter' = counter + 1
    /\ LET r == EmitSrt(cur, counter + 1, failStep)
       IN  /\ sink' = r.out \o sink
           /\ IF r.err = NoErr
              THEN /\ printed' = printed + 1
                   /\ rpc' = "pull"
                   /\ cur' = ZeroSubtitle
                   /\ UNCHANGED result
              ELSE /\ result' = WriteFailure(r.err)
                   /\ rpc' = "error"
                   /\ UNCHANGED <<printed, cur>>
    /\ UNCHANGED <<input, wide, inputEnd, inFormat, outFormat, pos, canceled,
                   cancelAt, checks>>
    /\ WCloser
    /\ UNCHANGED <<codecVars, iterVars, printerVars, argVars>>

\* print(sub) when NewSubtitlePrinter gave the SRT closure: n++, then
\* writeSrtSubtitle on a writer whose failStep-th Write fails (0: none).
CallPrintSrt(failStep) ==
    /\ counter' = counter + 1
    /\ LET r == EmitSrt(cur, counter + 1, failStep)
       IN  /\ sink' = sink \o r.out
           /\ IF r.err = NoErr
              THEN /\ printed' = printed + 1
                   /\ rpc' = "pull"
                   /\ cur' = ZeroSubtitle
                   /\ UNCHANGED result
              ELSE /\ result' = WriteFailure(r.err)
                   /\ rpc' = "error"
                   /\ UNCHANGED <<printed, cur>>
    /\ UNCHANGED <<input, wide, inputEnd, inFormat, outFormat, pos, canceled,
                   cancelAt, checks>>
    /\ WCloser
    /\ UNCHANGED <<codecVars, iterVars, printerVars, argVars>>

CallPrint ==
    /\ rpc = "print"
    /\ outFormat = SrtFormat
    /\ \E failStep \in 0..SrtWrites : CallPrintSrt(failStep)

\* print(sub) when NewSubtitlePrinter gave nil (TxtFormat and every other
\* format): the call of a nil function panics.
CallPrintNil ==
    /\ rpc = "print"
    /\ outFormat # SrtFormat
    /\ rpc' = "panicked"
    /\ UNCHANGED <<input, wide, inputEnd, inFormat, outFormat, pos, cur, canceled,
                   cancelAt, checks, sink, counter, printed, result>>
    /\ WCloser
    /\ UNCHANGED <<codecVars, iterVars, printerVars, argVars>>

\* os.Interrupt arrives: signal.NotifyContext cancels ctx.
Cancel ==
    /\ rpc \in {"pull", "check", "print"}
    /\ ~canceled
    /\ canceled' = TRUE
    /\ cancelAt' = [pc |-> rpc, pos |-> pos, printed |-> printed]
    /\ UNCHANGED <<input, wide, inputEnd, inFormat, outFormat, rpc, pos, cur, checks,
                   sink, counter, printed, result>>
    /\ UNCHANGED wclosed
    /\ UNCHANGED <<codecVars, iterVars, printerVars, argVars>>

Next ==
    \/ PullUnsupported
    \/ PullLine
    \/ PullTooLong
    \/ PullEnd
    \/ PullReadError
    \/ CheckCancel
    \/ CallPrint
    \/ CallPrintNil
    \/ Cancel

Spec == Init /\ [][Next]_vars

\* What process hands back to main: its one result, of type error.
Returned == [err |-> result]

\* The steps of the goroutine that runs process.
Step ==
    \/ PullUnsupported
    \/ PullLine
    \/ PullTooLong
    \/ PullEnd
    \/ PullReadError
    \/ CheckCancel
    \/ CallPrint
    \/ CallPrintNil

\* ------------------------------------------------------- pipeline claims
LineKind(i) == newSubtitleFromTxt(input[i]).kind

\* The records among the first k lines.
OkCount(k) == Cardinality({i \in 1..k : LineKind(i) = "ok"})

\* What writing the first k lines' records, numbered from 1, leaves in a sink.
RECURSIVE Blocks(_)
Blocks(k) ==
    IF k = 0 THEN <<>>
    ELSE Blocks(k - 1)
         \o Concat(writeSrtSubtitle(newSubtitleFromTxt(input[k]).sub, k))

IsPrefix(a, b) == Len(a) <= Len(b) /\ SubSeq(b, 1, Len(a)) = a

Stopped == {"ok", "error", "cancelled"}

\* C12: a run over readable txt input whose output format is unsupported never
\* crashes; when it has ended it has failed with a "format not supported"
\* error, and its sink is empty throughout.
C12_UnsupportedOutput ==
    (outFormat = UnknownFormat /\ inFormat = TxtFormat /\ inputEnd = "eof")
    => /\ rpc # "panicked"
       /\ sink = <<>>
       /\ rpc \in Stopped
             => /\ rpc = "error"
                /\ Contains(result.text, "format not supported")

\* C14: the loop checks ctx once for each record parsed, after the parse and
\* before the record is printed; when ctx is cancelled at a check, nothing of
\* the record in hand is written, no later line is pulled, and the run returns
\* the cancellation cause.
C14_CheckState ==
    /\ checks = (IF inFormat = TxtFormat THEN OkCount(pos) ELSE 0)
                - (IF rpc = "check" THEN 1 ELSE 0)
    /\ outFormat = SrtFormat
          => counter = checks - (IF rpc \in {"print", "cancelled"} THEN 1 ELSE 0)
    /\ rpc = "print" => (~canceled \/ cancelAt.pc = "print")
    /\ (canceled /\ cancelAt.pc \in {"pull", "check"})
          => /\ rpc # "print"
             /\ printed = cancelAt.printed
             /\ counter = cancelAt.printed
             /\ sink = Blocks(cancelAt.printed)
             /\ pos <= cancelAt.pos + (IF cancelAt.pc = "pull" THEN 1 ELSE 0)
    /\ rpc = "cancelled"
          => /\ canceled
             /\ result = [text |-> <<"context canceled">>, cause |-> NoErr]
             /\ LineKind(pos) = "ok"
             /\ printed = pos - 1
             /\ sink = Blocks(pos - 1)

C14_CancelCheck ==
    /\ []C14_CheckState
    /\ [][rpc = "cancelled"
            => (pos' = pos /\ sink' = sink /\ counter' = counter
                /\ result' = result /\ rpc' = rpc)]_vars

C14_Witness ==
    /\ rpc = "cancelled"
    /\ Len(input) = 3
    /\ pos = 2
    /\ printed = 1
    /\ checks = 2
    /\ sink # <<>>

\* C15: when ctx is cancelled after the first record was printed and before
\* the second line is pulled, and the second line is a record, the run has a
\* step to take until it has ended cancelled, with one record printed and
\* nothing of the second in the sink.
C15_Requested ==
    /\ cancelAt = [pc |-> "pull", pos |-> 1, printed |-> 1]
    /\ Len(input) >= 2
    /\ TokenFits(LineLen(2))
    /\ LineKind(2) = "ok"

C15_EarlyCancel ==
    C15_Requested
    => /\ rpc \in {"pull", "check", "cancelled"}
       /\ printed = 1
       /\ counter = 1
       /\ sink = Concat(writeSrtSubtitle(newSubtitleFromTxt(input[1]).sub, 1))
       /\ pos <= 2
       /\ rpc # "cancelled" => ENABLED Step
       /\ rpc = "cancelled"
             => result = [text |-> <<"context canceled">>, cause |-> NoErr]

C15_Witness ==
    /\ C15_Requested
    /\ rpc = "cancelled"
    /\ Len(input) = 3

\* C16: when the reader, the parser or the printer fails, the run stops there,
\* and the error returned names the stage that failed and has the underlying
\* cause in its chain.
ReadFailed ==
    /\ rpc = "error"
    /\ inFormat = TxtFormat
    /\ counter = printed
    /\ \/ pos = Len(input) /\ inputEnd = "err"
       \/ pos = wide - 1
    /\ (pos > 0 => LineKind(pos) = "ok")

ParseFailed ==
    /\ rpc = "error"
    /\ inFormat = TxtFormat
    /\ counter = printed
    /\ pos > 0
    /\ LineKind(pos) = "err"

WriteFailed ==
    /\ rpc = "error"
    /\ counter = printed + 1

C16_StageAndCause ==
    /\ ReadFailed
          => /\ Contains(result.text, "error reading txt subtitle")
             /\ \/ Contains(result.cause, "read error")
                \/ Contains(result.cause, "bufio.Scanner: token too long")
             /\ printed = pos
    /\ ParseFailed
          => /\ Contains(result.text, "error parsing txt subtitle")
             /\ Contains(result.cause, ErrSyntax)
             /\ printed = pos - 1
    /\ WriteFailed
          => /\ Contains(result.text, "failed to write subtitle")
             /\ Contains(result.cause, "write error")
             /\ printed = pos - 1
    /\ rpc = "error" => ~ENABLED Step

\* C17: over an empty txt input that ends cleanly the iterator yields nothing
\* (no line is pulled, ctx is never checked, the printer is never called) and
\* the run can only go on to end in success, with nothing printed and an empty
\* sink.
C17_EmptyInput ==
    (input = <<>> /\ inputEnd = "eof" /\ inFormat = TxtFormat)
    => /\ rpc \in {"pull", "ok"}
       /\ rpc = "pull" => ENABLED Step
       /\ pos = 0
       /\ checks = 0
       /\ counter = 0
       /\ printed = 0
       /\ sink = <<>>
       /\ result = NoFailure

C17_Witness ==
    /\ input = <<>>
    /\ inputEnd = "eof"
    /\ inFormat = TxtFormat
    /\ outFormat = SrtFormat
    /\ rpc = "ok"

\* C18: a run stops only in one of the states stopped-ok, stopped-error and
\* cancelled: every other state has a step to take, and a stopped state has
\* none.
C18_OneTerminalState ==
    /\ rpc \notin Stopped => ENABLED Step
    /\ rpc \in Stopped => ~ENABLED Next

\* C19 as stated: at every point of a run the sink holds the serializations
\* of a prefix of the input records and nothing else.
C19_PrefixOnly ==
    /\ sink = Blocks(printed)
    /\ \A i \in 1..printed : LineKind(i) = "ok"

\* C19: the sink begins with the serializations of the first `printed` lines,
\* all of them records, in input order; it holds more only after a write
\* failure, and then the writes of the next record that came before the
\* failing one.  A record is printed before the next line is pulled, and the
\* printer is called once for each record printed or failed.
C19_SingleForwardPass ==
    /\ IsPrefix(Blocks(printed), sink)
    /\ \A i \in 1..printed : LineKind(i) = "ok"
    /\ sink # Blocks(printed)
          => /\ WriteFailed
             /\ \E k \in 1..(SrtWrites - 1) :
                   sink = Blocks(printed)
                          \o Concat(SubSeq(writeSrtSubtitle(cur, printed + 1), 1, k))
    /\ pos \in {printed, printed + 1}
    /\ rpc = "pull" => pos = printed
    /\ counter = printed + (IF WriteFailed THEN 1 ELSE 0)

C19_Witness ==
    /\ WriteFailed
    /\ printed = 2
    /\ Len(input) = 3
    /\ sink # Blocks(2)

\* C20: when a run stops on a failure at its k-th line, the serializations of
\* lines 1..k-1 are in the sink as they were written; no step takes anything
\* out of the sink; and once a line is malformed no later line is pulled or
\* printed.
C20_SinkState ==
    /\ (rpc = "error" /\ inFormat = TxtFormat)
          => LET k == IF ReadFailed THEN pos + 1 ELSE pos
             IN  /\ printed = k - 1
                 /\ IsPrefix(Blocks(k - 1), sink)
    /\ \A i \in 1..Len(input) :
          LineKind(i) # "ok" => (pos <= i /\ counter < i /\ printed < i)

C20_NoRollbackNoSkip ==
    /\ []C20_SinkState
    /\ [][IsPrefix(sink, sink')]_vars

C20_Witness ==
    /\ rpc = "error"
    /\ Len(input) = 3
    /\ LineKind(2) = "err"
    /\ LineKind(3) = "ok"
    /\ printed = 1
    /\ sink # <<>>

\* -------------------------------------------------- iterator claims, II
\* C21: in an iteration over txt input the k-th item is the record of the
\* k-th line read, as long as lines read and parse; a read failure or a parse
\* failure is yielded once, wrapped as "error reading txt subtitle" or "error
\* parsing txt subtitle", and no item is yielded after it.
C21_ItemState ==
    format = TxtFormat
    => /\ (ipc = "yielded" /\ item.err = NoErr)
             => /\ yields = pulled
                /\ lineYields = 1
                /\ newSubtitleFromTxt(line).kind = "ok"
                /\ item.sub = newSubtitleFromTxt(line).sub
       /\ item.err # NoErr
             => \/ /\ item.err[1] = "error reading txt subtitle"
                   /\ Len(item.err) > 1
                   /\ yields = pulled + 1
                \/ /\ item.err[1] = "error parsing txt subtitle"
                   /\ Len(item.err) > 1
                   /\ newSubtitleFromTxt(line).kind = "err"
                   /\ yields = pulled
                   /\ lineYields = 1

C21_ErrorLast ==
    /\ []C21_ItemState
    /\ [][(format = TxtFormat /\ yields' # yields)
            => (item.err = NoErr /\ yields' = yields + 1)]_vars
    /\ [][(format = TxtFormat /\ item.err # NoErr)
            => (item' = item /\ pulled' = pulled /\ scans' = scans)]_vars

C21_Witness ==
    /\ format = TxtFormat
    /\ ipc = "done"
    /\ item.err # NoErr
    /\ item.err[1] = "error parsing txt subtitle"
    /\ pulled = 2
    /\ yields = 2

\* C22: each pull is one Scan and hands over at most one line; when the
\* consumer breaks after a record the iterator ends there: no further Scan,
\* no further line, no further item, and stop() has run once.
C22_PullState ==
    format = TxtFormat
    => /\ pulled <= scans
       /\ scans <= pulled + 1
       /\ yields <= scans
       /\ lineYields <= 1
       /\ (ipc = "yielded" /\ item.err = NoErr)
             => (scans = pulled /\ yields = pulled /\ stopCalls = 0)
       /\ ipc = "done" => stopCalls = 1

C22_Lazy ==
    /\ []C22_PullState
    /\ [][/\ scans' \in {scans, scans + 1}
          /\ pulled' \in {pulled, pulled + 1}
          /\ pulled' = pulled + 1 => scans' = scans + 1
          /\ (ipc = "yielded" /\ ipc' = "done" /\ item.err = NoErr)
                => (scans' = scans /\ pulled' = pulled /\ yields' = yields
                    /\ item' = item)
          /\ ipc = "done" => UNCHANGED iterVars]_vars

C22_Witness ==
    /\ format = TxtFormat
    /\ ipc = "done"
    /\ item.err = NoErr
    /\ line # <<>>
    /\ pulled = 1
    /\ scans = 1
    /\ yields = 1
    /\ stopCalls = 1

\* C23: a line wider than the scanner's buffer is never handed over, neither
\* whole nor cut, and no line after it is; when the run comes to it, its only
\* step is to stop with the read failure "token too long".
WideFailed ==
    /\ rpc = "error"
    /\ counter = printed
    /\ wide > 0
    /\ pos = wide - 1
    /\ pos > 0 => LineKind(pos) = "ok"

C23_LineTooLong ==
    (inFormat = TxtFormat /\ wide > 0)
    => /\ LineLen(wide) > readBufferSize
       /\ pos < wide
       /\ printed < wide
       /\ IsPrefix(sink, Blocks(wide - 1))
       /\ (rpc = "pull" /\ pos = wide - 1)
             => (ENABLED PullTooLong /\ ~ENABLED PullLine /\ ~ENABLED PullEnd)
       /\ WideFailed
             => /\ Contains(result.text, "error reading txt subtitle")
                /\ Contains(result.text, "bufio.Scanner: token too long")
                /\ sink = Blocks(wide - 1)

C23_Witness ==
    /\ inFormat = TxtFormat
    /\ WideFailed
    /\ wide = 2
    /\ Len(input) = 3
    /\ LineKind(3) = "ok"
    /\ printed = 1

\* C24: when process has ended it returns, with its outcome, the count of
\* records emitted, and the count is the number of complete blocks in the sink.
C24_ReturnsCount ==
    rpc \in Stopped
    => /\ "count" \in DOMAIN Returned
       /\ Returned.count = printed
       /\ IsPrefix(Blocks(printed), sink)

\* ------------------------------------------------------- codec claims, II
\* The clock text split at its delimiters: HH, MM, SS, mmm.
ClockFields(t) ==
    LET byColon == SplitOn(t, ":")
        tail == IF Len(byColon) = 3 THEN SplitOn(byColon[3], ",") ELSE <<>>
    IN  IF Len(byColon) = 3 /\ Len(tail) = 2
        THEN <<byColon[1], byColon[2], tail[1], tail[2]>>
        ELSE <<>>

AllDigits(f) == Len(f) > 0 /\ \A i \in 1..Len(f) : IsDigit(f[i])

\* C25: for a Duration d >= 0 of whole milliseconds writeSrtDuration writes
\* HH:MM:SS,mmm, each field of digits only, MM and SS of two digits and at
\* most 59, mmm of three digits, HH of two digits or of as many as the hours
\* need, and HH*3600000 + MM*60000 + SS*1000 + mmm = d.
C25_ClockText ==
    cpc = "clock"
    => LET f == ClockFields(encoded)
       IN  /\ Len(f) = 4
           /\ \A i \in 1..4 : AllDigits(f[i])
           /\ Len(f[1]) >= 2
           /\ Len(f[1]) > 2 => f[1][1] # "0"
           /\ Len(f[2]) = 2
           /\ Len(f[3]) = 2
           /\ Len(f[4]) = 3
           /\ DigitsVal(f[2]) <= 59
           /\ DigitsVal(f[3]) <= 59
           /\ DigitsVal(f[1]) * 3600000 + DigitsVal(f[2]) * 60000
                 + DigitsVal(f[3]) * 1000 + DigitsVal(f[4]) = decoded

C25_Witness ==
    /\ cpc = "clock"
    /\ decoded = 100 * Hour + 59 * Minute + 59 * Second + 999 * Millisecond
    /\ Len(encoded) = 13

\* -------------------------------------------------- iterator claims, III
\* C26: every record the parser yields has a Start that is not negative.
C26_NonNegativeStart ==
    (format = TxtFormat /\ ipc = "yielded" /\ item.err = NoErr)
    => item.sub.Start >= 0

\* ---------------------------------------------------- pipeline claims, II
\* C27: once ctx is cancelled at most one more record is written, the one
\* whose check had passed, and it is written whole unless its write fails;
\* at most one more line is pulled; and the run goes on until it has ended
\* cancelled, or with the end of the input, or in a failure.
C27_WithinOneRecord ==
    canceled
    => LET late == cancelAt.pc = "print"
           more == printed - cancelAt.printed
       IN  /\ more \in {0, 1}
           /\ more = 1 => late
           /\ pos <= cancelAt.pos + 1
           /\ (late /\ rpc \in {"check", "cancelled"}) => more = 1
           /\ rpc # "error" => sink = Blocks(printed)
           /\ rpc = "error" => IsPrefix(Blocks(printed), sink)
           /\ rpc = "print" => (late /\ more = 0 /\ pos = cancelAt.pos)
           /\ rpc = "ok" => pos = Len(input)
           /\ rpc \in {"pull", "check", "print"} => ENABLED Step

C27_Witness ==
    /\ canceled
    /\ cancelAt.pc = "print"
    /\ cancelAt.printed = 1
    /\ printed = 2
    /\ rpc = "cancelled"
    /\ pos = 3

\* ------------------------------------------------- command line of main
\* The words a command line is made of.
ArgWords == {"-o", "--output", "in.txt", "out.srt"}

\* ParseArguments(args): the named results parsed (never assigned) and
\* ErrNotImplemented.
ParseArguments(a) == [parsed |-> ZeroConfig, err |-> ErrNotImplemented]

InitArgs ==
    /\ args \in SeqsUpTo(ArgWords, MaxArgs)
    /\ apc = "start"
    /\ config = ZeroConfig
    /\ argErr = NoErr
    /\ CodecIdle
    /\ IterIdle
    /\ PrinterIdle
    /\ RunIdle

\* config, err := ParseArguments(os.Args[1:])
MainParse ==
    /\ apc = "start"
    /\ config' = ParseArguments(args).parsed
    /\ argErr' = ParseArguments(args).err
    /\ apc' = "parsed"
    /\ UNCHANGED <<args, codecVars, iterVars, printerVars, runVars>>

\* if err != nil { log.Fatalf(...) }, else process is called.
MainDispatch ==
    /\ apc = "parsed"
    /\ apc' = (IF argErr # NoErr THEN "fatal" ELSE "process")
    /\ UNCHANGED <<args, config, argErr, codecVars, iterVars, printerVars, runVars>>

NextArgs == MainParse \/ MainDispatch

SpecArgs == InitArgs /\ [][NextArgs]_vars

IsOutputFlag(w) == w \in {"-o", "--output"}

\* The command lines of the claim: -o/--output PATH pairs, then positional
\* arguments (a flag after the first positional one counts as positional).
RECURSIVE FlagsThenPositionals(_)
FlagsThenPositionals(a) ==
    IF a = <<>> \/ ~IsOutputFlag(a[1]) THEN TRUE
    ELSE Len(a) >= 2 /\ FlagsThenPositionals(SubSeq(a, 3, Len(a)))

\* The config the claim asks for, the output path seen so far being out.
RECURSIVE WantedConfig(_, _)
WantedConfig(a, out) ==
    IF a = <<>> THEN MainConfig("", TxtFormat, out, SrtFormat)
    ELSE IF IsOutputFlag(a[1]) /\ Len(a) >= 2
         THEN WantedConfig(SubSeq(a, 3, Len(a)), a[2])
         ELSE MainConfig(a[1], TxtFormat, out, SrtFormat)

\* C28: on a command line of -o/--output PATH pairs followed by positional
\* arguments ParseArguments returns no error and the config with the txt and
\* srt formats, the last output path given ("-" when none) and the first
\* positional argument ("" when none) as input path.
C28_ParseArguments ==
    (apc # "start" /\ FlagsThenPositionals(args))
    => /\ argErr = NoErr
       /\ config = WantedConfig(args, "-")
       /\ apc # "fatal"

\* --------------------------------------------------- pipeline claims, III
\* Line i is a record whose end frame is below its start frame.
EndsBeforeStart(i) ==
    /\ LineKind(i) = "ok"
    /\ ParseInt(FieldB(input[i])).val < ParseInt(FieldA(input[i])).val

\* The i-th block written to the sink.
BlockAt(i) == SubSeq(sink, Len(Blocks(i - 1)) + 1, Len(Blocks(i)))

\* C29: a well-formed line {a}{b}T with b < a gives, without an error, a
\* record with End < Start, and the block the pipeline writes for it shows
\* both times as they are: Start, " --> ", End.
C29_EndBeforeStart ==
    /\ (rpc \in {"check", "print"} /\ EndsBeforeStart(pos))
          => /\ cur = newSubtitleFromTxt(input[pos]).sub
             /\ cur.End < cur.Start
    /\ \A i \in 1..printed :
          EndsBeforeStart(i)
          => LET rec == newSubtitleFromTxt(input[i]).sub
             IN  /\ rec.End < rec.Start
                 /\ LinesOf(BlockAt(i))[2]
                      = writeSrtDuration(rec.Start) \o Arrow
                        \o writeSrtDuration(rec.End)

\* --------------------------------------------------- iterator claims, IV
\* Something stands before the first "{" of the line, or between its two
\* bracketed fields.
StrayCharacters(l) ==
    HasTwoPairs(l) /\ (OpenA(l) > 1 \/ OpenB(l) > CloseA(l) + 1)

\* C30: a line the parser accepts begins with "{", its second field begins
\* right after the "}" of the first, and both fields are integers; a line
\* with something before the first "{" or between the two fields is
\* answered with an error.
C30_GrammarExact ==
    /\ (format = TxtFormat /\ ipc = "yielded" /\ item.err = NoErr)
          => /\ HasTwoPairs(line)
             /\ OpenA(line) = 1
             /\ OpenB(line) = CloseA(line) + 1
             /\ IsIntegerText(FieldA(line))
             /\ IsIntegerText(FieldB(line))
    /\ (LineInHand /\ StrayCharacters(line))
          => (ipc # "panicked" /\ item.err # NoErr)

\* ------------------------------------------------- pipeline claims, III
\* The item the iterator yields after p lines is a failure: the format is
\* not supported, the next line is too wide or does not parse, or the reader
\* fails at its end.
ItemFails(p) ==
    \/ inFormat # TxtFormat
    \/ /\ p < Len(input)
       /\ \/ ~TokenFits(LineLen(p + 1))
          \/ LineKind(p + 1) = "err"
    \/ p = Len(input) /\ inputEnd = "err"

\* What process returns for that failure.
ItemFailure(p) ==
    IF inFormat # TxtFormat THEN ParseFailure(ErrNotImplemented)
    ELSE IF p = Len(input) THEN ParseFailure(ReadError)
    ELSE IF ~TokenFits(LineLen(p + 1)) THEN ParseFailure(TooLongError)
    ELSE ParseFailure(ParseError(newSubtitleFromTxt(input[p + 1]).err))

\* C31: the error of the item is looked at before ctx: a run that is about to
\* pull a failing item while ctx is cancelled has a step to take, and that
\* step ends it in stopped-error with the item's failure; a run ends
\* cancelled only at the check of a record that parsed.
C31_State ==
    /\ (canceled /\ rpc = "pull" /\ ItemFails(pos)) => ENABLED Step
    /\ rpc = "cancelled"
          => /\ inFormat = TxtFormat
             /\ pos > 0
             /\ LineKind(pos) = "ok"
             /\ cur = newSubtitleFromTxt(input[pos]).sub
             /\ checks = OkCount(pos)

C31_ErrorBeforeCancel ==
    /\ []C31_State
    /\ [][(canceled /\ rpc = "pull" /\ ItemFails(pos) /\ rpc' # rpc)
            => (rpc' = "error" /\ result' = ItemFailure(pos))]_vars

C31_Witness ==
    /\ canceled
    /\ cancelAt.pc = "pull"
    /\ cancelAt.pos = 1
    /\ rpc = "error"
    /\ pos = 2
    /\ LineKind(2) = "err"
    /\ printed = 1

\* ctx was cancelled before the first line was pulled.
CancelledFromStart ==
    /\ canceled
    /\ cancelAt = [pc |-> "pull", pos |-> 0, printed |-> 0]

\* C32: ctx is looked at only with a record in hand.  When ctx is cancelled
\* from the start and the first line is a record, the run has a step to take
\* until it has ended cancelled at that record's check, with nothing written
\* and no printer called; when the input is empty it goes on to end in
\* success, ctx never looked at.
C32_CancelNeedsRecord ==
    (CancelledFromStart /\ inFormat = TxtFormat)
    => /\ (Len(input) >= 1 /\ TokenFits(LineLen(1)) /\ LineKind(1) = "ok")
             => /\ rpc \in {"pull", "check", "cancelled"}
                /\ rpc = "pull" => pos = 0
                /\ rpc \in {"check", "cancelled"} => pos = 1
                /\ sink = <<>>
                /\ counter = 0
                /\ printed = 0
                /\ rpc # "cancelled" => (ENABLED Step /\ result = NoFailure)
                /\ rpc = "cancelled" => (result = Canceled /\ checks = 1)
       /\ (input = <<>> /\ inputEnd = "eof")
             => /\ rpc \in {"pull", "ok"}
                /\ rpc = "pull" => ENABLED Step
                /\ result = NoFailure
                /\ checks = 0
                /\ sink = <<>>

C32_Witness ==
    /\ CancelledFromStart
    /\ inFormat = TxtFormat
    /\ Len(input) = 2
    /\ rpc = "cancelled"
    /\ outFormat = SrtFormat

\* ---------------------------------------------------- iterator claims, V
\* The iteration is over: the iterator function has returned or unwound.
IterationOver == ipc \in {"done", "panicked"}

\* C33: stop has been called once when the iteration is over, however it
\* ended, and not at all before; an iteration that is not over has a step to
\* take, and once stop has been called no line is scanned or delivered.
C33_StopState ==
    /\ stopCalls = (IF IterationOver THEN 1 ELSE 0)
    /\ IterationOver => ~ENABLED NextIter
    /\ ~IterationOver => ENABLED NextIter

C33_StopOnce ==
    /\ []C33_StopState
    /\ [][stopCalls >= 1
            => (scans' = scans /\ pulled' = pulled /\ stopCalls' = stopCalls)]_vars

\* The loop body broke on the second record.
C33_Witness ==
    /\ format = TxtFormat
    /\ ipc = "done"
    /\ stopCalls = 1
    /\ item # NoItem
    /\ item.err = NoErr
    /\ pulled = 2
    /\ scans = 2

\* -------------------------------------------------- pipeline claims, IV
\* C34: a run that printed records and ends in success has had its last
\* flush and close succeed: a failure of wcloser is never behind a nil
\* result.
C34_FlushFailureSurfaced ==
    (rpc = "ok" /\ printed >= 1)
    => /\ result = NoFailure
       /\ wclosed = "nil"

====
